---- MODULE Spec2Model ----
(***************************************************************************)
(* Lead finder: the POST /api/search handler (src/app/api/search/route.ts), *)
(* the business search with its three source providers and the             *)
(* deduplicator (src/lib/searchEngine.ts) and the website quality analyzer  *)
(* (src/lib/websiteAnalyzer.ts).                                            *)
(*                                                                         *)
(* Strings of the program are TLA+ strings; an await of the handler is a    *)
(* step boundary, so one action is the code run between two awaits.         *)
(***************************************************************************)
EXTENDS Integers, Sequences, FiniteSets, TLC

VARIABLES
    payload,      \* the request body as req.json() will see it
    pc,           \* position of the POST handler / stream start callback
    stream,       \* "none" | "open" | "closed": the ReadableStream controller
    events,       \* the frames enqueued on the stream, in order
    businesses,   \* searchBusinesses: the accumulated list, then the returned list
    idx,          \* the loop variable i of the analysis loop
    calls,        \* searchBusinesses: the provider calls made so far, in order
    provided,     \* the settlement of the awaited source provider promise
    inflight,     \* the axios outcome the awaited analyzeWebsite call will see
    deadline,     \* "running" | "elapsed": maxDuration seconds have passed
    dInput,       \* removeDuplicates harness: the input list
    dOutput,      \* removeDuplicates harness: the returned list
    dDone,        \* removeDuplicates harness: the function has returned
    aUrl,         \* analyzeWebsite harness: the url argument
    aNet,         \* analyzeWebsite harness: what the network answers to axios.get
    aResult,      \* analyzeWebsite harness: the settled promise
    aDone         \* analyzeWebsite harness: the promise has settled

vars == <<payload, pc, stream, events, businesses, idx, calls, provided, inflight, deadline,
          dInput, dOutput, dDone, aUrl, aNet, aResult, aDone>>

pipelineVars ==
    <<payload, pc, stream, events, businesses, idx, calls, provided, inflight, deadline>>
dedupeVars == <<dInput, dOutput, dDone>>
analyzerVars == <<aUrl, aNet, aResult, aDone>>

----------------------------------------------------------------------------
(* Bounds of the model *)

\* largest leadCount a request carries
MaxLeadCount == 4

\* longest input list given to removeDuplicates on its own
MaxDedupeLen == 3

----------------------------------------------------------------------------
(* Strings *)

\* String.prototype.toLowerCase on one character of the model's alphabet
LowerChar(c) ==
    CASE c = "A" -> "a"
      [] c = "B" -> "b"
      [] c = "C" -> "c"
      [] c = "D" -> "d"
      [] OTHER -> c

RECURSIVE ToLowerCase(_)
ToLowerCase(s) ==
    IF s = "" THEN ""
    ELSE LowerChar(SubSeq(s, 1, 1)) \o ToLowerCase(SubSeq(s, 2, Len(s)))

\* String.prototype.startsWith
StartsWith(s, prefix) ==
    /\ Len(s) >= Len(prefix)
    /\ SubSeq(s, 1, Len(prefix)) = prefix

----------------------------------------------------------------------------
(* searchEngine.ts: removeDuplicates *)

\* a key that compares names case-sensitively
DedupeKeyCaseSensitive(business) ==
    business.businessName \o "-" \o business.phone

\* the key of a business in the seen set
DedupeKey(business) ==
    ToLowerCase(business.businessName) \o "-" \o business.phone

\* businesses.filter(...) with the seen set threaded through the callback calls
RECURSIVE FilterSeen(_, _)
FilterSeen(list, seen) ==
    IF list = <<>> THEN <<>>
    ELSE LET business == Head(list)
             key == DedupeKey(business)
         IN  IF key \in seen
             THEN FilterSeen(Tail(list), seen)
             ELSE <<business>> \o FilterSeen(Tail(list), seen \cup {key})

removeDuplicates(list) == FilterSeen(list, {})

\* the list returned without the slice
Slice0Missing(list, end) == list

\* Array.prototype.slice(0, end) for an integer end >= 0
Slice0(list, end) ==
    SubSeq(list, 1, IF end < Len(list) THEN end ELSE Len(list))

----------------------------------------------------------------------------
(* websiteAnalyzer.ts: analyzeWebsite *)

\* A page is what the cheerio queries and regular expressions of the checks
\* find in response.data:
\*   loads            cheerio.load(response.data) returns (FALSE: it throws)
\*   viewport         $('meta[name="viewport"]').attr('content'), "" when absent
\*   titleLen         $('title').text().length
\*   descLen          length of the meta description content, 0 when absent
\*   images, imagesWithoutAlt
\*   hasPhone, hasEmail   the two regular expressions tested on the body text
\*   flashObjects, flashEmbeds, tables, socialLinks   element counts
\*   htmlSize         response.data.length
\*   links            number of a[href] elements
\*   placeholders     those of the first 10 with href '#', '' or 'javascript:void(0)'

Fulfilled(status, score, issues) ==
    [outcome |-> "fulfilled", status |-> status, score |-> score, issues |-> issues]

Rejected ==
    [outcome |-> "rejected", status |-> "", score |-> 0, issues |-> <<>>]

\* axios.get with the default validateStatus, 200 <= status < 300
AxiosGetDefaultValidate(net) ==
    IF net.kind = "http"
    THEN IF net.status >= 200 /\ net.status < 300
         THEN [kind |-> "response", status |-> net.status, data |-> net.page,
               code |-> "", message |-> ""]
         ELSE [kind |-> "throw", status |-> net.status, data |-> net.page,
               code |-> "ERR_BAD_RESPONSE",
               message |-> "Request failed with status code " \o ToString(net.status)]
    ELSE [kind |-> "throw", status |-> 0, data |-> net.page,
          code |-> net.code, message |-> net.message]

\* axios.get with validateStatus: (status) => status < 500
AxiosGet(net) ==
    IF net.kind = "http"
    THEN IF net.status < 500
         THEN [kind |-> "response", status |-> net.status, data |-> net.page,
               code |-> "", message |-> ""]
         ELSE [kind |-> "throw", status |-> net.status, data |-> net.page,
               code |-> "ERR_BAD_RESPONSE",
               message |-> "Request failed with status code " \o ToString(net.status)]
    ELSE [kind |-> "throw", status |-> 0, data |-> net.page,
          code |-> net.code, message |-> net.message]

\* the checks chained with else-if: only the first failing check counts
CheckElseIf(acc, failed, issue, penalty) ==
    IF failed /\ acc.issues = <<>>
    THEN [issues |-> Append(acc.issues, issue), score |-> acc.score - penalty]
    ELSE acc

\* one check: if (failed) { issues.push(issue); score -= penalty; }
Check(acc, failed, issue, penalty) ==
    IF failed
    THEN [issues |-> Append(acc.issues, issue), score |-> acc.score - penalty]
    ELSE acc

Max(a, b) == IF a > b THEN a ELSE b
Min(a, b) == IF a < b THEN a ELSE b

\* the eleven checks, in the order of the code
RunChecks(url, page) ==
    LET c0  == [issues |-> <<>>, score |-> 100]
        c1  == Check(c0, page.viewport = "", "Not mobile-responsive", 15)
        c2  == Check(c1, ~StartsWith(url, "https://"), "No HTTPS", 10)
        c3  == Check(c2, page.titleLen = 0 \/ page.titleLen < 10,
                     "Missing or poor title tag", 10)
        c4  == Check(c3, page.descLen = 0 \/ page.descLen < 50,
                     "Missing or poor meta description", 10)
        c5  == Check(c4, page.images > 0 /\ 2 * page.imagesWithoutAlt > page.images,
                     "Many images missing alt text", 8)
        c6  == Check(c5, ~page.hasPhone /\ ~page.hasEmail,
                     "No contact information visible", 15)
        c7  == Check(c6, page.flashObjects > 0 \/ page.flashEmbeds > 0,
                     "Uses outdated Flash technology", 20)
        c8  == Check(c7, page.tables > 10, "Outdated table-based layout", 15)
        c9  == Check(c8, ~(page.socialLinks > 0), "No social media integration", 5)
        c10 == Check(c9, page.htmlSize > 500000, "Large page size (slow loading)", 10)
        c11 == Check(c10, page.links > 0 /\ page.placeholders > 3,
                     "Multiple broken links detected", 8)
    IN  c11

\* the result without the clamp of line 137
ScoreResultNoClamp(checked) ==
    LET score == checked.score
        status == IF score >= 70 THEN "Good Quality" ELSE "Low Quality"
    IN  Fulfilled(status, score,
                  IF Len(checked.issues) > 0 THEN checked.issues
                  ELSE <<"No major issues detected">>)

\* the last else branch of the classification returning 'No Website'
ScoreResultLowIsNoWebsite(checked) ==
    LET score == Max(0, Min(100, checked.score))
        status == IF score >= 70 THEN "Good Quality"
                  ELSE IF score >= 40 THEN "Low Quality"
                  ELSE "No Website"
    IN  Fulfilled(status, score,
                  IF Len(checked.issues) > 0 THEN checked.issues
                  ELSE <<"No major issues detected">>)

\* lines 136-153: clamp, classify, default issue
ScoreResult(checked) ==
    LET score == Max(0, Min(100, checked.score))
        status == IF score >= 70 THEN "Good Quality"
                  ELSE IF score >= 40 THEN "Low Quality"
                  ELSE "Low Quality"
    IN  Fulfilled(status, score,
                  IF Len(checked.issues) > 0 THEN checked.issues
                  ELSE <<"No major issues detected">>)

\* a catch block that rethrows what it does not recognise
CatchBlockRethrow(error) ==
    IF error.code = "ENOTFOUND" \/ error.code = "ECONNREFUSED"
    THEN Fulfilled("No Website", 0, <<"Website not accessible or does not exist">>)
    ELSE Rejected

\* a catch block whose absence branch carries the score of the other branch
CatchBlockAbsenceScore(error) ==
    IF error.code = "ENOTFOUND" \/ error.code = "ECONNREFUSED"
    THEN Fulfilled("No Website", 15, <<"Website not accessible or does not exist">>)
    ELSE Fulfilled("Low Quality", 15,
                   <<"Unable to analyze website",
                     IF error.message # "" THEN error.message ELSE "Unknown error">>)

\* the catch block, lines 154-169
CatchBlock(error) ==
    IF error.code = "ENOTFOUND" \/ error.code = "ECONNREFUSED"
    THEN Fulfilled("No Website", 0, <<"Website not accessible or does not exist">>)
    ELSE Fulfilled("Low Quality", 15,
                   <<"Unable to analyze website",
                     IF error.message # "" THEN error.message ELSE "Unknown error">>)

\* the error cheerio.load throws on a body it cannot take
LoadError == [code |-> "", message |-> "cheerio.load() expects a string"]

\* lines 29-35: the HTTP error branch
HttpErrorResult(status) ==
    Fulfilled("Low Quality", 20, <<"Website not accessible", "HTTP " \o ToString(status)>>)

analyzeWebsite(url, net) ==
    IF url = ""
    THEN Fulfilled("No Website", 0, <<"No website found">>)
    ELSE LET response == AxiosGet(net)
         IN  IF response.kind = "throw"
             THEN CatchBlock([code |-> response.code, message |-> response.message])
             ELSE IF response.status >= 400
             THEN HttpErrorResult(response.status)
             ELSE IF ~response.data.loads
             THEN CatchBlock(LoadError)
             ELSE ScoreResult(RunChecks(url, response.data))

----------------------------------------------------------------------------
(* Inputs of the analyzer: urls, pages and network outcomes *)

NoPage ==
    [loads |-> FALSE, viewport |-> "", titleLen |-> 0, descLen |-> 0,
     images |-> 0, imagesWithoutAlt |-> 0, hasPhone |-> FALSE, hasEmail |-> FALSE,
     flashObjects |-> 0, flashEmbeds |-> 0, tables |-> 0, socialLinks |-> 0,
     htmlSize |-> 0, links |-> 0, placeholders |-> 0]

\* every combination of the page features on both sides of each threshold
Pages ==
    { [loads |-> TRUE, viewport |-> v, titleLen |-> t, descLen |-> d,
       images |-> im[1], imagesWithoutAlt |-> im[2],
       hasPhone |-> ph, hasEmail |-> em,
       flashObjects |-> fl[1], flashEmbeds |-> fl[2],
       tables |-> tb, socialLinks |-> so, htmlSize |-> sz,
       links |-> ln[1], placeholders |-> ln[2]] :
        v \in {"", "width=device-width"}, t \in {9, 10}, d \in {49, 50},
        im \in {<<0, 0>>, <<2, 1>>, <<2, 2>>},
        ph \in BOOLEAN, em \in BOOLEAN,
        fl \in {<<0, 0>>, <<1, 0>>, <<0, 1>>},
        tb \in {10, 11}, so \in {0, 1}, sz \in {500000, 500001},
        ln \in {<<0, 0>>, <<10, 3>>, <<10, 4>>} }

\* a page on which no check fails (given an https url)
CleanPage ==
    [loads |-> TRUE, viewport |-> "width=device-width", titleLen |-> 10,
     descLen |-> 50, images |-> 2, imagesWithoutAlt |-> 1,
     hasPhone |-> TRUE, hasEmail |-> FALSE, flashObjects |-> 0, flashEmbeds |-> 0,
     tables |-> 10, socialLinks |-> 1, htmlSize |-> 500000,
     links |-> 10, placeholders |-> 3]

\* a page on which every check fails
WorstPage ==
    [loads |-> TRUE, viewport |-> "", titleLen |-> 9, descLen |-> 49,
     images |-> 2, imagesWithoutAlt |-> 2, hasPhone |-> FALSE, hasEmail |-> FALSE,
     flashObjects |-> 1, flashEmbeds |-> 0, tables |-> 11, socialLinks |-> 0,
     htmlSize |-> 500001, links |-> 10, placeholders |-> 4]

\* a body cheerio.load throws on
BrokenPage == [NoPage EXCEPT !.loads = FALSE]

NetError(code, message) ==
    [kind |-> "error", status |-> 0, page |-> NoPage, code |-> code, message |-> message]

NetHttp(status, page) ==
    [kind |-> "http", status |-> status, page |-> page, code |-> "", message |-> ""]

\* no request was made
NoNet == [kind |-> "none", status |-> 0, page |-> NoPage, code |-> "", message |-> ""]

NetErrors ==
    { NetError("ENOTFOUND", "getaddrinfo ENOTFOUND site.com"),
      NetError("ECONNREFUSED", "connect ECONNREFUSED 127.0.0.1:443"),
      NetError("ECONNABORTED", "timeout of 10000ms exceeded"),
      NetError("ECONNRESET", "socket hang up"),
      NetError("", "") }

HttpErrorStatuses == {400, 404, 499, 500, 503}

Urls == {"http://site.com", "https://site.com"}

\* what axios.get can meet for a non-empty url
AnalyzerNets ==
    NetErrors
    \cup { NetHttp(st, CleanPage) : st \in HttpErrorStatuses }
    \cup { NetHttp(399, CleanPage), NetHttp(200, BrokenPage) }
    \cup { NetHttp(200, pg) : pg \in Pages }

\* the outcomes the pipeline model lets a fetch have
PipelineNets ==
    { NetError("ENOTFOUND", "getaddrinfo ENOTFOUND site.com"),
      NetError("ECONNREFUSED", "connect ECONNREFUSED 127.0.0.1:443"),
      NetError("ECONNABORTED", "timeout of 10000ms exceeded"),
      NetHttp(404, CleanPage), NetHttp(503, CleanPage),
      NetHttp(200, BrokenPage), NetHttp(200, CleanPage), NetHttp(200, WorstPage) }

NoResult == [outcome |-> "pending", status |-> "", score |-> 0, issues |-> <<>>]

----------------------------------------------------------------------------
(* analyzeWebsite on its own *)

InitAnalyzer ==
    /\ \/ aUrl = "" /\ aNet \in {NoNet} \cup NetErrors
       \/ aUrl \in Urls /\ aNet \in AnalyzerNets
    /\ aResult = NoResult
    /\ aDone = FALSE
    /\ payload = [json |-> "invalid", categoryIsString |-> TRUE, leadCount |-> 0]
    /\ pc = "idle" /\ stream = "none" /\ events = <<>> /\ businesses = <<>>
    /\ idx = 0 /\ inflight = NoNet /\ provided = [kind |-> "none", records |-> <<>>]
    /\ calls = <<>> /\ deadline = "running"
    /\ dInput = <<>> /\ dOutput = <<>> /\ dDone = FALSE

Analyze ==
    /\ ~aDone
    /\ aResult' = analyzeWebsite(aUrl, aNet)
    /\ aDone' = TRUE
    /\ UNCHANGED <<aUrl, aNet, pipelineVars, dedupeVars>>

NextAnalyzer == Analyze

SpecAnalyzer == InitAnalyzer /\ [][NextAnalyzer]_vars

----------------------------------------------------------------------------
(* removeDuplicates on its own *)

Business(name, phone, website) ==
    [businessName |-> name, phone |-> phone, website |-> website]

DedupeNames == {"A", "a", "a-"}
DedupePhones == {"1", "-1"}

DedupeRecords ==
    { Business(n, ph, w) : n \in DedupeNames, ph \in DedupePhones,
                           w \in {"", "https://site.com"} }

ListsOf(S, n) == [1..n -> S]

ListsUpTo(S, n) == UNION { ListsOf(S, k) : k \in 0..n }

InitDedupe ==
    /\ dInput \in ListsUpTo(DedupeRecords, MaxDedupeLen)
    /\ dOutput = <<>>
    /\ dDone = FALSE
    /\ aUrl = "" /\ aNet = NoNet /\ aResult = NoResult /\ aDone = FALSE
    /\ payload = [json |-> "invalid", categoryIsString |-> TRUE, leadCount |-> 0]
    /\ pc = "idle" /\ stream = "none" /\ events = <<>> /\ businesses = <<>>
    /\ idx = 0 /\ inflight = NoNet /\ provided = [kind |-> "none", records |-> <<>>]
    /\ calls = <<>> /\ deadline = "running"

Dedupe ==
    /\ ~dDone
    /\ dOutput' = removeDuplicates(dInput)
    /\ dDone' = TRUE
    /\ UNCHANGED <<dInput, pipelineVars, analyzerVars>>

NextDedupe == Dedupe

SpecDedupe == InitDedupe /\ [][NextDedupe]_vars

----------------------------------------------------------------------------
(* searchEngine.ts: the source providers *)

\* Math.ceil(leadCount / 3) for an integer leadCount >= 0
CeilThird(leadCount) == (leadCount + 2) \div 3

\* The records a provider can hand out.  The name is built from the request's
\* category and city and the phone from Math.random(); the model lets both range
\* over a small pool, which includes names equal up to case with equal phones.
\* A website is '' or an https:// url, as in the providers.
PoolRecords ==
    { Business("C", "+1", ""),
      Business("c", "+1", "https://site.com"),
      Business("D", "+1", "https://site.com"),
      Business("D", "+2", "") }

Returned(records) == [kind |-> "ok", records |-> records]
Thrown == [kind |-> "throw", records |-> <<>>]
NotProvided == [kind |-> "none", records |-> <<>>]

\* The settlements of one provider call.  category.toLowerCase() throws a
\* TypeError when the request's category is not a string; it sits behind a
\* Math.random() test in the fields where mayShortCircuit holds, and is
\* evaluated in every iteration otherwise (facebook of searchSocialMedia).
\* A record built without evaluating it has website ''.
ProviderResults(limit, categoryIsString, mayShortCircuit) ==
    IF limit = 0 THEN { Returned(<<>>) }
    ELSE IF categoryIsString
    THEN { Returned(r) : r \in ListsOf(PoolRecords, limit) }
    ELSE { Thrown } \cup
         (IF mayShortCircuit
          THEN { Returned(r) :
                   r \in ListsOf({b \in PoolRecords : b.website = ""}, limit) }
          ELSE {})

searchGoogleMaps(query, limit) ==
    ProviderResults(limit, query.categoryIsString, TRUE)

searchLocalDirectories(query, limit) ==
    ProviderResults(limit, query.categoryIsString, TRUE)

searchSocialMedia(query, limit) ==
    ProviderResults(limit, query.categoryIsString, FALSE)

----------------------------------------------------------------------------
(* route.ts: the POST handler and the start callback of its stream *)

\* a provider call that has just been made: its promise is pending
NewCall(provider, limit) ==
    [provider |-> provider, limit |-> limit, state |-> "pending", records |-> <<>>]

\* the await of the last call made resumes with its settlement
Settle(made, settlement) ==
    [made EXCEPT ![Len(made)] =
        [@ EXCEPT !.state = IF settlement.kind = "throw" THEN "rejected" ELSE "fulfilled",
                  !.records = settlement.records]]

\* the request bodies: not JSON at all, the JSON value null, or an object
Payloads ==
    { [json |-> "invalid", categoryIsString |-> TRUE, leadCount |-> 0],
      [json |-> "null", categoryIsString |-> TRUE, leadCount |-> 0] }
    \cup [json : {"object"}, categoryIsString : BOOLEAN, leadCount : 0..MaxLeadCount]

NoLead ==
    [businessName |-> "", phone |-> "", website |-> "",
     websiteStatus |-> "", qualityScore |-> 0, issues |-> <<>>]

Frame(type, message, lead) == [type |-> type, message |-> message, lead |-> lead]

\* sendMessage(type, data): controller.enqueue of one encoded frame
sendMessage(queue, type, message, lead) == Append(queue, Frame(type, message, lead))

Progress(queue, message) == sendMessage(queue, "progress", message, NoLead)

\* { ...business, websiteStatus, qualityScore, issues }
MakeLead(business, analysis) ==
    [businessName |-> business.businessName, phone |-> business.phone,
     website |-> business.website, websiteStatus |-> analysis.status,
     qualityScore |-> analysis.score, issues |-> analysis.issues]

Init ==
    /\ payload \in Payloads
    /\ pc = "json"
    /\ stream = "none"
    /\ events = <<>>
    /\ businesses = <<>>
    /\ idx = 0
    /\ calls = <<>>
    /\ provided = NotProvided
    /\ inflight = NoNet
    /\ deadline = "running"
    /\ dInput = <<>> /\ dOutput = <<>> /\ dDone = FALSE
    /\ aUrl = "" /\ aNet = NoNet /\ aResult = NoResult /\ aDone = FALSE

\* line 17: await req.json() settles
ParseRequest ==
    /\ pc = "json"
    /\ pc' = IF payload.json = "invalid" THEN "rejected" ELSE "parsed"
    /\ UNCHANGED <<payload, stream, events, businesses, idx, calls, provided, inflight>>
    /\ UNCHANGED <<deadline, dedupeVars, analyzerVars>>

\* the three provider calls made together, as with Promise.all, before the await
StartSearchConcurrent ==
    /\ pc = "parsed"
    /\ stream' = "open"
    /\ businesses' = <<>>
    /\ IF payload.json = "null"
       THEN /\ events' = Progress(events, "Starting business search...")
            /\ calls' = <<>>
            /\ provided' = NotProvided
            /\ pc' = "catch"
       ELSE /\ events' = Progress(Progress(events, "Starting business search..."),
                                  "Searching Google Maps...")
            /\ calls' = << NewCall("google", CeilThird(payload.leadCount)),
                           NewCall("directory", CeilThird(payload.leadCount)),
                           NewCall("social", CeilThird(payload.leadCount)) >>
            /\ provided' \in searchGoogleMaps(payload, CeilThird(payload.leadCount))
            /\ pc' = "google"
    /\ UNCHANGED <<payload, idx, inflight>>
    /\ UNCHANGED <<deadline, dedupeVars, analyzerVars>>

\* lines 19-37: the stream is built, start() runs up to the first provider await
StartSearch ==
    /\ pc = "parsed"
    /\ stream' = "open"
    /\ businesses' = <<>>
    /\ IF payload.json = "null"
       THEN \* line 31: destructuring null throws, searchBusinesses rejects
            /\ events' = Progress(events, "Starting business search...")
            /\ calls' = <<>>
            /\ provided' = NotProvided
            /\ pc' = "catch"
       ELSE /\ events' = Progress(Progress(events, "Starting business search..."),
                                  "Searching Google Maps...")
            /\ calls' = <<NewCall("google", CeilThird(payload.leadCount))>>
            /\ provided' \in searchGoogleMaps(payload, CeilThird(payload.leadCount))
            /\ pc' = "google"
    /\ UNCHANGED <<payload, idx, inflight>>
    /\ UNCHANGED <<deadline, dedupeVars, analyzerVars>>

\* lines 37-41
GoogleSettled ==
    /\ pc = "google"
    /\ IF provided.kind = "throw"
       THEN /\ pc' = "catch"
            /\ calls' = Settle(calls, provided)
            /\ UNCHANGED <<events, businesses, provided>>
       ELSE /\ businesses' = businesses \o provided.records
            /\ events' = Progress(events, "Searching local directories...")
            /\ calls' = Append(Settle(calls, provided),
                               NewCall("directory", CeilThird(payload.leadCount)))
            /\ provided' \in searchLocalDirectories(payload, CeilThird(payload.leadCount))
            /\ pc' = "directory"
    /\ UNCHANGED <<payload, stream, idx, inflight>>
    /\ UNCHANGED <<deadline, dedupeVars, analyzerVars>>

\* lines 41-45
DirectorySettled ==
    /\ pc = "directory"
    /\ IF provided.kind = "throw"
       THEN /\ pc' = "catch"
            /\ calls' = Settle(calls, provided)
            /\ UNCHANGED <<events, businesses, provided>>
       ELSE /\ businesses' = businesses \o provided.records
            /\ events' = Progress(events, "Searching social media platforms...")
            /\ calls' = Append(Settle(calls, provided),
                               NewCall("social", CeilThird(payload.leadCount)))
            /\ provided' \in searchSocialMedia(payload, CeilThird(payload.leadCount))
            /\ pc' = "social"
    /\ UNCHANGED <<payload, stream, idx, inflight>>
    /\ UNCHANGED <<deadline, dedupeVars, analyzerVars>>

\* lines 45-50: the last push, removeDuplicates and slice(0, leadCount)
SocialSettled ==
    /\ pc = "social"
    /\ IF provided.kind = "throw"
       THEN /\ pc' = "catch"
            /\ UNCHANGED <<businesses, provided>>
       ELSE /\ businesses' = Slice0(removeDuplicates(businesses \o provided.records),
                                    payload.leadCount)
            /\ provided' = NotProvided
            /\ pc' = "searched"
    /\ calls' = Settle(calls, provided)
    /\ UNCHANGED <<payload, stream, events, idx, inflight>>
    /\ UNCHANGED <<deadline, dedupeVars, analyzerVars>>

\* lines 32-41: searchBusinesses has returned, the loop starts at i = 0
SearchReturned ==
    /\ pc = "searched"
    /\ events' = Progress(events, "Found " \o ToString(Len(businesses))
                                  \o " businesses. Analyzing websites...")
    /\ idx' = 0
    /\ pc' = "loop"
    /\ calls' = [i \in DOMAIN calls |-> [calls[i] EXCEPT !.records = <<>>]]
    /\ UNCHANGED <<payload, stream, businesses, provided, inflight>>
    /\ UNCHANGED <<deadline, dedupeVars, analyzerVars>>

\* the message announcing the analysis of the record at position k
AnalyzingMessage(k) ==
    "Analyzing " \o businesses[k].businessName \o " (" \o ToString(k)
    \o "/" \o ToString(Len(businesses)) \o ")"

\* an iteration that does not wait: the call for the next record is started too
BeginAnalysisNoAwait ==
    /\ pc = "loop"
    /\ idx < Len(businesses)
    /\ events' = IF idx + 1 < Len(businesses)
                 THEN Progress(Progress(events, AnalyzingMessage(idx + 1)),
                               AnalyzingMessage(idx + 2))
                 ELSE Progress(events, AnalyzingMessage(idx + 1))
    /\ IF businesses[idx + 1].website = ""
       THEN inflight' = NoNet
       ELSE inflight' \in PipelineNets
    /\ pc' = "analyzing"
    /\ UNCHANGED <<payload, stream, businesses, idx, calls, provided>>
    /\ UNCHANGED <<deadline, dedupeVars, analyzerVars>>

\* lines 41-47: one iteration up to the await of analyzeWebsite
BeginAnalysis ==
    /\ pc = "loop"
    /\ idx < Len(businesses)
    /\ LET business == businesses[idx + 1]
       IN  /\ events' = Progress(events, AnalyzingMessage(idx + 1))
           /\ IF business.website = ""
              THEN inflight' = NoNet
              ELSE inflight' \in PipelineNets
    /\ pc' = "analyzing"
    /\ UNCHANGED <<payload, stream, businesses, idx, calls, provided>>
    /\ UNCHANGED <<deadline, dedupeVars, analyzerVars>>

\* lines 47-59: the analysis settles, the lead is sent, the delay starts
AnalysisSettled ==
    /\ pc = "analyzing"
    /\ LET business == businesses[idx + 1]
           websiteAnalysis == analyzeWebsite(business.website, inflight)
       IN  IF websiteAnalysis.outcome = "rejected"
           THEN /\ pc' = "catch"
                /\ UNCHANGED events
           ELSE /\ events' = sendMessage(events, "result", "",
                                         MakeLead(business, websiteAnalysis))
                /\ pc' = "delay"
    /\ inflight' = NoNet
    /\ UNCHANGED <<payload, stream, businesses, idx, calls, provided>>
    /\ UNCHANGED <<deadline, dedupeVars, analyzerVars>>

\* lines 59 and 41: the 100 ms timer fires, i++
DelayElapsed ==
    /\ pc = "delay"
    /\ idx' = idx + 1
    /\ pc' = "loop"
    /\ UNCHANGED <<payload, stream, events, businesses, calls, provided, inflight>>
    /\ UNCHANGED <<deadline, dedupeVars, analyzerVars>>

\* complete is sent, then something throws before the close
CompleteThenThrow ==
    /\ pc = "loop"
    /\ ~(idx < Len(businesses))
    /\ stream = "open"
    /\ events' = sendMessage(events, "complete", "Search completed successfully", NoLead)
    /\ pc' = "catch"
    /\ UNCHANGED <<payload, stream, businesses, idx, calls, provided, inflight>>
    /\ UNCHANGED <<deadline, dedupeVars, analyzerVars>>

\* lines 41 and 62-63: the loop is over
Complete ==
    /\ pc = "loop"
    /\ ~(idx < Len(businesses))
    /\ stream = "open"
    /\ events' = sendMessage(events, "complete", "Search completed successfully", NoLead)
    /\ stream' = "closed"
    /\ pc' = "done"
    /\ UNCHANGED <<payload, businesses, idx, calls, provided, inflight>>
    /\ UNCHANGED <<deadline, dedupeVars, analyzerVars>>

\* lines 64-75: the catch block of start()
CatchError ==
    /\ pc = "catch"
    /\ stream = "open"
    /\ events' = Append(events, Frame("error", "An error occurred during search", NoLead))
    /\ stream' = "closed"
    /\ pc' = "done"
    /\ UNCHANGED <<payload, businesses, idx, calls, provided, inflight>>
    /\ UNCHANGED <<deadline, dedupeVars, analyzerVars>>

Next ==
    \/ ParseRequest
    \/ StartSearch
    \/ GoogleSettled
    \/ DirectorySettled
    \/ SocialSettled
    \/ SearchReturned
    \/ BeginAnalysis
    \/ AnalysisSettled
    \/ DelayElapsed
    \/ Complete
    \/ CatchError

Spec == Init /\ [][Next]_vars

----------------------------------------------------------------------------
(* route.ts line 6: maxDuration *)

\* maxDuration seconds pass while the handler is still running: time passes at
\* the awaits that wait for the outside world, the fetch of analyzeWebsite
\* (up to its 10 s timeout) and the 100 ms delay after each result.  No statement
\* of the handler reads a clock or sets a timer for the whole search, so the
\* handler itself does nothing at that moment: either the hosting platform
\* enforces the exported limit and ends the function, cutting the response
\* stream where it is, or it does not and the handler runs on.
DeadlineElapsed ==
    /\ deadline = "running"
    /\ pc \in {"analyzing", "delay"}
    /\ deadline' = "elapsed"
    /\ \/ pc' = "killed" /\ stream' = "aborted"
       \/ UNCHANGED <<pc, stream>>
    /\ UNCHANGED <<payload, events, businesses, idx, calls, provided, inflight>>
    /\ UNCHANGED <<dedupeVars, analyzerVars>>

NextDeadline ==
    \/ Next
    \/ DeadlineElapsed

SpecDeadline == Init /\ [][NextDeadline]_vars

----------------------------------------------------------------------------
(* Properties *)

IsTerminal(e) == e.type = "complete" \/ e.type = "error"

TerminalCount(queue) == Cardinality({i \in DOMAIN queue : IsTerminal(queue[i])})

ResultIndexes(queue) == {i \in DOMAIN queue : queue[i].type = "result"}

ResultCount(queue) == Cardinality(ResultIndexes(queue))

LastType(queue) == IF queue = <<>> THEN "" ELSE queue[Len(queue)].type

\* the search returned: the "Found n businesses" frame is on the stream
SearchReturnedSeen ==
    \E i \in DOMAIN events :
        events[i].type = "progress" /\ StartsWith(events[i].message, "Found ")

\* C1: once the handler has built its stream, the stream carries at most one
\* terminal event (complete or error), that event is the last frame enqueued,
\* the stream is closed exactly when it carries one, and a handler that has run
\* its stream to the end has closed it.
C1_OneTerminalEventLast ==
    /\ TerminalCount(events) <= 1
    /\ \A i \in DOMAIN events : IsTerminal(events[i]) => i = Len(events)
    /\ (stream = "closed") <=> (TerminalCount(events) = 1)
    /\ pc = "done" => stream = "closed"

C1_Witness ==
    /\ pc = "done"
    /\ stream = "closed"
    /\ LastType(events) = "complete"
    /\ ResultCount(events) >= 2

\* C2: every request that has finished, whichever way, has delivered one
\* terminal event to the consumer.
C2_AlwaysTerminalEvent ==
    pc \in {"done", "rejected"} => TerminalCount(events) = 1

\* C3: the number of result events on the stream never exceeds leadCount.
C3_ResultsAtMostLeadCount ==
    ResultCount(events) <= payload.leadCount

C3_Witness ==
    /\ pc = "done"
    /\ payload.leadCount = 2
    /\ ResultCount(events) = 2

\* the (lowercased businessName, phone) pair of the claim
IdentityPair(business) == <<ToLowerCase(business.businessName), business.phone>>

\* the elements of list at the indexes in keep, in order
RECURSIVE SelectIndexes(_, _, _)
SelectIndexes(list, keep, i) ==
    IF i > Len(list) THEN <<>>
    ELSE (IF i \in keep THEN <<list[i]>> ELSE <<>>) \o SelectIndexes(list, keep, i + 1)

\* C4: the output of removeDuplicates holds no two records with the same
\* (lowercased businessName, phone) pair, and it is the input restricted to a
\* set of positions each of which is the first position of its pair.
C4_DedupeUniqueFirstOccurrences ==
    dDone =>
        /\ \A i, j \in DOMAIN dOutput :
               IdentityPair(dOutput[i]) = IdentityPair(dOutput[j]) => i = j
        /\ \E keep \in SUBSET (DOMAIN dInput) :
               /\ dOutput = SelectIndexes(dInput, keep, 1)
               /\ \A i \in keep : \A j \in 1..(i - 1) :
                      IdentityPair(dInput[j]) # IdentityPair(dInput[i])

C4_Witness ==
    /\ dDone
    /\ Len(dInput) = 3
    /\ Len(dOutput) = 2
    /\ IdentityPair(dInput[1]) = IdentityPair(dInput[3])
    /\ dInput[1] # dInput[3]

\* C5: a search in which a source provider threw still ends with complete.
C5_ProviderFailureIsolated ==
    (pc = "done" /\ provided.kind = "throw") => LastType(events) = "complete"

\* C6: once the search has returned, no outcome of a fetch sends the handler
\* to its catch block: the stream never ends with error, every record analyzed
\* so far has its result event, and at complete there is one result event per
\* record of the returned list, in order.
C6_AnalysisFailureNeverAborts ==
    SearchReturnedSeen =>
        /\ pc # "catch"
        /\ LastType(events) # "error"
        /\ pc = "loop" => ResultCount(events) = idx
        /\ pc = "delay" => ResultCount(events) = idx + 1
        /\ pc = "done" =>
              /\ LastType(events) = "complete"
              /\ ResultCount(events) = Len(businesses)
              /\ \A k \in 1..Len(businesses) :
                    \E i \in ResultIndexes(events) :
                        /\ Cardinality({j \in ResultIndexes(events) : j <= i}) = k
                        /\ events[i].lead.businessName = businesses[k].businessName
                        /\ events[i].lead.phone = businesses[k].phone

C6_Witness ==
    /\ pc = "done"
    /\ LastType(events) = "complete"
    /\ \E i, j \in ResultIndexes(events) :
          /\ i < j
          /\ events[i].lead.issues[1] = "Unable to analyze website"
          /\ events[j].lead.websiteStatus = "Good Quality"

\* C7 as stated: a lead with status No Website has score 0 and an empty website.
C7_NoWebsiteMeansEmptyWebsite ==
    \A i \in ResultIndexes(events) :
        events[i].lead.websiteStatus = "No Website" =>
            /\ events[i].lead.qualityScore = 0
            /\ events[i].lead.website = ""

\* C7, amended: a lead with status No Website has score 0, and its website is
\* empty unless the analysis took the ENOTFOUND/ECONNREFUSED branch, whose
\* issues are ["Website not accessible or does not exist"].
C7_NoWebsiteScoreZero ==
    \A i \in ResultIndexes(events) :
        LET lead == events[i].lead
        IN  lead.websiteStatus = "No Website" =>
                /\ lead.qualityScore = 0
                /\ \/ lead.website = "" /\ lead.issues = <<"No website found">>
                   \/ lead.website # ""
                      /\ lead.issues = <<"Website not accessible or does not exist">>

C7_Witness ==
    \E i, j \in ResultIndexes(events) :
        /\ events[i].lead.websiteStatus = "No Website" /\ events[i].lead.website = ""
        /\ events[j].lead.websiteStatus = "No Website" /\ events[j].lead.website # ""

\* the result the claim gives for an HTTP error status
HttpErrorExpected(status) ==
    [outcome |-> "fulfilled", status |-> "Low Quality", score |-> 20,
     issues |-> <<"Website not accessible", "HTTP " \o ToString(status)>>]

\* C8 as stated: any response status of 400 or above yields Low Quality, 20,
\* ["Website not accessible", "HTTP <code>"].
C8_HttpErrorAnyStatus ==
    (aDone /\ aUrl # "" /\ aNet.kind = "http" /\ aNet.status >= 400) =>
        aResult = HttpErrorExpected(aNet.status)

\* C8, amended: a response status from 400 to 499 yields Low Quality, 20,
\* ["Website not accessible", "HTTP <code>"]; a status of 500 or above makes
\* axios.get reject and yields Low Quality, 15, ["Unable to analyze website",
\* the error's message].
C8_HttpErrorClientStatus ==
    (aDone /\ aUrl # "" /\ aNet.kind = "http" /\ aNet.status >= 400) =>
        IF aNet.status < 500
        THEN aResult = HttpErrorExpected(aNet.status)
        ELSE /\ aResult.outcome = "fulfilled"
             /\ aResult.status = "Low Quality"
             /\ aResult.score = 15
             /\ Len(aResult.issues) = 2
             /\ aResult.issues[1] = "Unable to analyze website"

C8_Witness ==
    /\ aDone
    /\ aUrl # ""
    /\ aNet.kind = "http"
    /\ aNet.status = 499
    /\ aResult.score = 20

\* the fetch succeeded and the body was parsed: the checks ran
ChecksRan ==
    /\ aDone
    /\ aUrl # ""
    /\ aNet.kind = "http"
    /\ aNet.status < 400
    /\ aNet.page.loads

\* the eleven checks of the claim, TRUE where the check fails
ClaimFailed ==
    LET page == aNet.page
    IN  << page.viewport = "",
           SubSeq(aUrl, 1, 8) # "https://",
           page.titleLen < 10,
           page.descLen < 50,
           page.images >= 1 /\ page.imagesWithoutAlt * 2 > page.images,
           ~(page.hasPhone \/ page.hasEmail),
           page.flashObjects + page.flashEmbeds > 0,
           page.tables > 10,
           page.socialLinks = 0,
           page.htmlSize > 500000,
           page.placeholders > 3 >>

ClaimPenalties == <<15, 10, 10, 10, 8, 15, 20, 15, 5, 10, 8>>

ClaimIssues ==
    << "Not mobile-responsive", "No HTTPS", "Missing or poor title tag",
       "Missing or poor meta description", "Many images missing alt text",
       "No contact information visible", "Uses outdated Flash technology",
       "Outdated table-based layout", "No social media integration",
       "Large page size (slow loading)", "Multiple broken links detected" >>

RECURSIVE ClaimPenaltySum(_)
ClaimPenaltySum(k) ==
    IF k = 0 THEN 0
    ELSE (IF ClaimFailed[k] THEN ClaimPenalties[k] ELSE 0) + ClaimPenaltySum(k - 1)

RECURSIVE ClaimIssueList(_)
ClaimIssueList(k) ==
    IF k = 0 THEN <<>>
    ELSE ClaimIssueList(k - 1) \o (IF ClaimFailed[k] THEN <<ClaimIssues[k]>> ELSE <<>>)

ClaimScore ==
    LET raw == 100 - ClaimPenaltySum(11)
    IN  IF raw < 0 THEN 0 ELSE IF raw > 100 THEN 100 ELSE raw

\* C9: after a successful fetch whose body was parsed, the score is
\* max(0, min(100, 100 - the penalties of exactly the failed checks)) and,
\* when a check failed, the issues are the strings of the failed checks in the
\* fixed check order, for every combination of failed checks.
C9_ScoreIsSumOfPenalties ==
    ChecksRan =>
        /\ aResult.outcome = "fulfilled"
        /\ aResult.score = ClaimScore
        /\ ClaimIssueList(11) # <<>> => aResult.issues = ClaimIssueList(11)

\* the synthetic page of the specification: score 42, six issues
C9_Witness ==
    /\ ChecksRan
    /\ aResult.score = 42
    /\ aResult.issues = << "Not mobile-responsive", "No HTTPS",
                           "Missing or poor title tag",
                           "Missing or poor meta description",
                           "Many images missing alt text",
                           "No social media integration" >>

\* C10: every outcome of analyzeWebsite has an integer score in 0..100 and a
\* non-empty issues list; after a successful fetch with no failed check the
\* issues are exactly ["No major issues detected"].
C10_ScoreRangeIssuesNonEmpty ==
    aDone =>
        /\ aResult.outcome = "fulfilled"
        /\ aResult.score \in 0..100
        /\ Len(aResult.issues) >= 1
        /\ (ChecksRan /\ \A k \in 1..11 : ~ClaimFailed[k]) =>
               aResult.issues = <<"No major issues detected">>

\* every check failed: the raw score 100 - 126 is clamped to 0
C10_Witness ==
    /\ ChecksRan
    /\ \A k \in 1..11 : ClaimFailed[k]
    /\ aResult.score = 0
    /\ Len(aResult.issues) = 11

\* C11: after a fetch that returned a status below 400 the status is Good
\* Quality exactly when the score is at least 70 and Low Quality otherwise;
\* No Website is returned only for the empty url and for a fetch that failed
\* with ENOTFOUND or ECONNREFUSED.
C11_StatusFromScore ==
    aDone =>
        /\ (aUrl # "" /\ aNet.kind = "http" /\ aNet.status < 400) =>
              /\ aResult.status \in {"Good Quality", "Low Quality"}
              /\ (aResult.status = "Good Quality") <=> (aResult.score >= 70)
        /\ aResult.status = "No Website" =>
              \/ aUrl = ""
              \/ aNet.kind = "error" /\ aNet.code \in {"ENOTFOUND", "ECONNREFUSED"}

\* a scored page right at the threshold
C11_Witness ==
    /\ ChecksRan
    /\ aResult.score = 70
    /\ aResult.status = "Good Quality"

ProviderOrder == <<"google", "directory", "social">>

\* the provider calls are those of the fixed roster, in order, each with limit
\* ceil(leadCount / 3)
CallsInRosterOrder ==
    /\ Len(calls) <= 3
    /\ \A i \in DOMAIN calls :
          /\ calls[i].provider = ProviderOrder[i]
          /\ calls[i].limit * 3 >= payload.leadCount
          /\ (calls[i].limit - 1) * 3 < payload.leadCount

\* the records of the first n calls, concatenated in call order
RECURSIVE ConcatCalls(_)
ConcatCalls(n) == IF n = 0 THEN <<>> ELSE ConcatCalls(n - 1) \o calls[n].records

\* the list holds the results in the order Google Maps, directories, social media
ConcatenatedInOrder ==
    /\ pc \in {"google", "directory", "social"} =>
          businesses = ConcatCalls(Len(calls) - 1)
    /\ pc = "searched" =>
          businesses = Slice0(removeDuplicates(ConcatCalls(3)), payload.leadCount)

StartedIn(n) ==
    Cardinality({i \in 1..n : /\ events[i].type = "progress"
                              /\ StartsWith(events[i].message, "Analyzing ")})

ResultsIn(n) == Cardinality({i \in 1..n : events[i].type = "result"})

IsResult(e) == e.type = "result"

\* the business of each result frame, in stream order
RECURSIVE EmittedBusinesses(_)
EmittedBusinesses(queue) ==
    IF queue = <<>> THEN <<>>
    ELSE (IF IsResult(Head(queue))
          THEN <<Business(Head(queue).lead.businessName, Head(queue).lead.phone,
                          Head(queue).lead.website)>>
          ELSE <<>>) \o EmittedBusinesses(Tail(queue))

\* C13: at every point of the stream the analyses started exceed the results
\* sent by at most one (one call in flight, exactly while the handler awaits
\* it), the call for a record starts only after the results of all earlier
\* records are on the stream, the returned list is the deduplicated list cut to
\* its first leadCount entries, and at complete the result frames are that
\* list, one per record, in order.
C13_SequentialAnalysis ==
    /\ \A n \in 0..Len(events) :
          /\ StartedIn(n) - ResultsIn(n) \in {0, 1}
          /\ (n > 0 /\ StartedIn(n) > StartedIn(n - 1)) =>
                ResultsIn(n) = StartedIn(n) - 1
    /\ (pc = "analyzing") <=>
          (StartedIn(Len(events)) - ResultsIn(Len(events)) = 1)
    /\ pc = "searched" =>
          LET unique == removeDuplicates(ConcatCalls(3))
          IN  businesses = [i \in 1..Min(payload.leadCount, Len(unique)) |-> unique[i]]
    /\ (pc = "done" /\ LastType(events) = "complete") =>
          EmittedBusinesses(events) = businesses

C13_Witness ==
    /\ pc = "done"
    /\ LastType(events) = "complete"
    /\ payload.leadCount = 3
    /\ Len(businesses) = 3
    /\ EmittedBusinesses(events) = businesses

\* C14: a search whose deadline elapsed before it finished has ended its
\* stream with the error event.
C14_DeadlineEndsWithError ==
    (deadline = "elapsed" /\ pc \in {"done", "killed"}) => LastType(events) = "error"

\* C15: removeDuplicates drops a record only when an earlier record has the
\* same (lowercased businessName, phone) pair: every pair of the input is
\* still the pair of some record of the output.
C15_DropsOnlyEqualPairs ==
    dDone =>
        \A i \in DOMAIN dInput :
            \E k \in DOMAIN dOutput : IdentityPair(dOutput[k]) = IdentityPair(dInput[i])

====
